---- MODULE Spec2Model ----
(***************************************************************************)
(* A model of the two command-line scripts of the repository:              *)
(*   preprocessing.py  the image preprocessor  (specification Spec)        *)
(*   ocr.py            the OCR runner          (specification OcrSpec)     *)
(* Each script is one sequential process; an action is one statement (or   *)
(* one run of straight-line statements) of the script, and pc is the       *)
(* position of the process.  The library calls the scripts make (PIL,      *)
(* numpy, OpenCV, manga_ocr) are modelled by what they return to the       *)
(* script, and by a nondeterministic choice where the result depends on    *)
(* the environment (an exception, the recognised text).                    *)
(***************************************************************************)
EXTENDS Integers, Sequences, FiniteSets

VARIABLES
    argv,                  \* sys.argv[1:], the arguments after the script name
    pc,                    \* position of the process
    stdout,                \* lines printed to standard output
    stderr,                \* lines written to standard error (print and logging)
    exit_status,           \* -1 while running, else the status of the process
    faults,                \* history: the steps that raised an exception
    \* ---- preprocessing.py
    file,                  \* the file at the path the script is given
    file0,                 \* history: that file when the process started
    image,                 \* preprocess_image: image
    grayscale_image,       \* preprocess_image: grayscale_image
    text_is_dark,          \* preprocess_image: text_is_dark
    thresh_calls,          \* history: the cv2.adaptiveThreshold calls made
    adaptive_thresh_image, \* preprocess_image: adaptive_thresh_image
    morph_image,           \* preprocess_image: morph_image
    result_image,          \* preprocess_image: result_image
    white_pixels,          \* preprocess_image: white_pixels
    total_pixels,          \* preprocess_image: total_pixels
    enhance_calls,         \* history: the images enhancer.enhance was applied to
    \* ---- ocr.py
    mocr,                  \* __main__: mocr
    result,                \* __main__: result
    init_calls,            \* history: number of MangaOcr(...) constructions
    ocr_calls              \* history: number of mocr(image_path) calls

pvars == <<file, file0, image, grayscale_image, text_is_dark, thresh_calls,
           adaptive_thresh_image, morph_image, result_image, white_pixels,
           total_pixels, enhance_calls>>
ovars == <<mocr, result, init_calls, ocr_calls>>
io    == <<stdout, stderr, exit_status>>
vars  == <<argv, pc, stdout, stderr, exit_status, faults, pvars, ovars>>

(***************************************************************************)
(* Bounds of the model.                                                    *)
(***************************************************************************)
\* an input image has at most MaxPixels pixels (width * height)
MaxPixels == 4
\* at most MaxArgs command-line arguments follow the script name
MaxArgs == 3

(***************************************************************************)
(* Arithmetic helpers.                                                     *)
(***************************************************************************)
RECURSIVE SeqSum(_)
SeqSum(s) == IF s = <<>> THEN 0 ELSE Head(s) + SeqSum(Tail(s))

SetMax(S) == CHOOSE m \in S : \A x \in S : x <= m
SetMin(S) == CHOOSE m \in S : \A x \in S : m <= x

Abs(x) == IF x < 0 THEN -x ELSE x

(***************************************************************************)
(* Images.  A PIL image is a record [mode, w, h, px]: px is the row-major  *)
(* sequence of its pixels and a pixel is the tuple of its band values      *)
(* (<<v>> in mode "L", <<r, g, b>> in mode "RGB").  A numpy array of a     *)
(* single-band image is a record [w, h, px] with px a sequence of integers.*)
(***************************************************************************)
NoImage == [mode |-> "none", w |-> 0, h |-> 0, px |-> <<>>]
NoArray == [w |-> 0, h |-> 0, px |-> <<>>]

\* the pixel values of the input files: a mode "L" file and a mode "RGB" file
GrayPixels == {<<0>>, <<127>>, <<255>>}
RgbPixels  == {<<0, 0, 255>>, <<127, 127, 127>>, <<255, 255, 0>>}

Shapes == {s \in (1..MaxPixels) \X (1..MaxPixels) : s[1] * s[2] <= MaxPixels}

ImagesOf(mode, pixels) ==
    UNION {{[mode |-> mode, w |-> s[1], h |-> s[2], px |-> p] :
              p \in [1..(s[1] * s[2]) -> pixels]} : s \in Shapes}

InputImages == ImagesOf("L", GrayPixels) \cup ImagesOf("RGB", RgbPixels)

\* PIL's conversion of one pixel to mode "L" (ITU-R 601-2 luma, fixed point)
Luma(p) ==
    IF Len(p) = 1 THEN p[1]
    ELSE (p[1] * 19595 + p[2] * 38470 + p[3] * 7471 + 32768) \div 65536

\* image.convert('L')
ConvertL(img) ==
    [mode |-> "L", w |-> img.w, h |-> img.h,
     px |-> [i \in 1..Len(img.px) |-> <<Luma(img.px[i])>>]]

\* np.array(image) of a mode "L" image
ToArray(img) ==
    [w |-> img.w, h |-> img.h, px |-> [i \in 1..Len(img.px) |-> img.px[i][1]]]

\* Image.fromarray(array) of a 2-D uint8 array
FromArray(a) ==
    [mode |-> "L", w |-> a.w, h |-> a.h,
     px |-> [i \in 1..Len(a.px) |-> <<a.px[i]>>]]

\* the pixels of array a within Chebyshev distance r of pixel i
Within(a, i, r) ==
    {j \in 1..Len(a.px) :
        /\ Abs(((j - 1) % a.w) - ((i - 1) % a.w)) <= r
        /\ Abs(((j - 1) \div a.w) - ((i - 1) \div a.w)) <= r}

(***************************************************************************)
(* preprocessing.py: the library calls.                                    *)
(***************************************************************************)
WhitePixelThreshold == 250
BrightnessThreshold == 127
BlockSize == 11
ThreshOffset == 2
MaxValue == 255
KernelSize == 3
ContrastFactor == 2

\* a variant of is_text_dark that compares with >= instead of >
MutIsTextDark(img) ==
    LET gray == ToArray(ConvertL(img))
    IN  SeqSum(gray.px) >= 127 * Len(gray.px)

\* is_text_dark: np.mean(gray) > 127.  np.mean divides the exact sum by the
\* pixel count in float64; for these magnitudes the quotient exceeds 127
\* exactly when the sum exceeds 127 times the count.
IsTextDark(img) ==
    LET gray == ToArray(ConvertL(img))
    IN  SeqSum(gray.px) > BrightnessThreshold * Len(gray.px)

\* the thresholdType argument of the branch preprocess_image takes
ThresholdType(dark) == IF dark THEN "THRESH_BINARY" ELSE "THRESH_BINARY_INV"

\* cv2.adaptiveThreshold(src, maxValue, ADAPTIVE_THRESH_GAUSSIAN_C, type,
\* blockSize, C).  Pixel i of the result compares src(i) with T(i) - C, where
\* T(i) is the Gaussian-weighted mean of the blockSize x blockSize
\* neighbourhood of i (border replicated):
\*     THRESH_BINARY      dst(i) = maxValue if src(i) > T(i) - C, else 0
\*     THRESH_BINARY_INV  dst(i) = 0        if src(i) > T(i) - C, else maxValue
\* The weights are floating point and are not computed here: T(i) is any
\* value between the least and the greatest pixel of the neighbourhood, so
\* the call returns one of the arrays below.
ThresholdPixel(a, i, maxValue, type, blockSize, C) ==
    LET block == {a.px[j] : j \in Within(a, i, blockSize \div 2)}
        above == SetMin(block) - C < a.px[i]      \* some T has src > T - C
        below == SetMax(block) - C >= a.px[i]     \* some T has src <= T - C
    IN  IF type = "THRESH_BINARY"
        THEN (IF above THEN {maxValue} ELSE {}) \cup (IF below THEN {0} ELSE {})
        ELSE (IF above THEN {0} ELSE {}) \cup (IF below THEN {maxValue} ELSE {})

AdaptiveThreshold(a, maxValue, type, blockSize, C) ==
    {[w |-> a.w, h |-> a.h, px |-> p] :
        p \in {q \in [1..Len(a.px) -> {0, maxValue}] :
                 \A i \in 1..Len(a.px) :
                     q[i] \in ThresholdPixel(a, i, maxValue, type, blockSize, C)}}

\* cv2.dilate / cv2.erode with a k x k kernel of ones: the greatest (least)
\* pixel of the k x k neighbourhood; pixels outside the image do not count
\* (the default border value of the morphological operations).
Dilate(a, k) ==
    [a EXCEPT !.px = [i \in 1..Len(a.px) |->
                        SetMax({a.px[j] : j \in Within(a, i, k \div 2)})]]
Erode(a, k) ==
    [a EXCEPT !.px = [i \in 1..Len(a.px) |->
                        SetMin({a.px[j] : j \in Within(a, i, k \div 2)})]]

\* cv2.morphologyEx(src, cv2.MORPH_CLOSE, kernel, iterations=1)
MorphClose(a, k) == Erode(Dilate(a, k), k)

\* np.sum(np_image > white_pixel_threshold)
CountAbove(a, t) == Cardinality({i \in 1..Len(a.px) : a.px[i] > t})

\* a variant of the contrast test that compares with <= instead of <
MutNeedsContrast(W, N) == 2 * W <= N

\* white_ratio < 0.5 with white_ratio = white_pixels / total_pixels, a
\* float64 quotient of two integers: below 0.5 exactly when 2 * W < N.
NeedsContrast(W, N) == 2 * W < N

\* ImageEnhance.Contrast(image).enhance(factor) for a mode "L" image: the
\* degenerate image is uniform at m = int(mean + 0.5), and Image.blend gives
\* each pixel m + factor * (p - m), clipped to 0..255.
\* a variant of the clipping that wraps around as an unsaturated 8-bit store does
MutClip(v) == v % 256

Clip(v) == IF v <= 0 THEN 0 ELSE IF v >= 255 THEN 255 ELSE v

RoundedMean(img) ==
    (2 * SeqSum(ToArray(img).px) + Len(img.px)) \div (2 * Len(img.px))

Enhance(img, factor) ==
    LET m == RoundedMean(img)
    IN  [img EXCEPT !.px = [i \in 1..Len(img.px) |->
                              <<Clip(m + factor * (img.px[i][1] - m))>>]]

(***************************************************************************)
(* preprocessing.py: the files and the process.                            *)
(***************************************************************************)
ImagePath == "page.png"

\* what the file at ImagePath may hold: nothing (no such file), bytes that are
\* no image, an image header with damaged pixel data, an image, or the
\* remains of an interrupted write
AbsentFile    == [kind |-> "absent", img |-> NoImage]
CorruptFile   == [kind |-> "corrupt", img |-> NoImage]
TruncatedFile == [kind |-> "truncated", img |-> NoImage]
PartialFile   == [kind |-> "partial", img |-> NoImage]
ImageFile(img) == [kind |-> "image", img |-> img]

InputFiles ==
    {AbsentFile, CorruptFile, TruncatedFile} \cup {ImageFile(i) : i \in InputImages}

PreInit ==
    /\ argv \in {<<>>, <<ImagePath>>}
    /\ file \in InputFiles
    /\ file0 = file
    /\ pc = "main"
    /\ stdout = <<>>
    /\ stderr = <<>>
    /\ exit_status = -1
    /\ faults = {}
    /\ image = NoImage
    /\ grayscale_image = NoImage
    /\ text_is_dark = FALSE
    /\ thresh_calls = <<>>
    /\ adaptive_thresh_image = NoArray
    /\ morph_image = NoArray
    /\ result_image = NoImage
    /\ white_pixels = 0
    /\ total_pixels = 0
    /\ enhance_calls = <<>>
    /\ mocr = "None"
    /\ result = [isNone |-> TRUE, val |-> ""]   \* None
    /\ init_calls = 0
    /\ ocr_calls = 0

\* a variant of the except block that prints the error without sys.exit(1):
\* the script then ends with status 0
MutExcept(step) ==
    /\ stderr' = Append(stderr, <<"print", "Error processing image">>)
    /\ exit_status' = 0
    /\ pc' = "exited"
    /\ faults' = faults \cup {step}
    /\ UNCHANGED stdout

\* the except block of preprocess_image: print the error, sys.exit(1)
Except(step) ==
    /\ stderr' = Append(stderr, <<"print", "Error processing image">>)
    /\ exit_status' = 1
    /\ pc' = "exited"
    /\ faults' = faults \cup {step}
    /\ UNCHANGED stdout

\* if __name__ == "__main__": the argument check
PreMain ==
    /\ pc = "main"
    /\ IF Len(argv) < 1
       THEN /\ stderr' = Append(stderr, <<"print", "Usage: preprocessing.py <image_path>">>)
            /\ exit_status' = 1
            /\ pc' = "exited"
       ELSE /\ pc' = "open"
            /\ UNCHANGED <<stderr, exit_status>>
    /\ UNCHANGED <<argv, stdout, faults, pvars, ovars>>

\* a variant of the load that opens the file for update and truncates it
\* when the file turns out to be no image
MutOpenImage ==
    /\ pc = "open"
    /\ IF file.kind \in {"absent", "corrupt", "partial"}
       THEN /\ stderr' = Append(stderr, <<"print", "Error processing image">>)
            /\ exit_status' = 1
            /\ pc' = "exited"
            /\ faults' = faults \cup {"open"}
            /\ file' = IF file.kind = "absent" THEN file ELSE PartialFile
            /\ UNCHANGED <<stdout, image>>
       ELSE /\ image' = file.img
            /\ pc' = "gray"
            /\ UNCHANGED <<io, faults, file>>
    /\ UNCHANGED <<argv, file0, grayscale_image, text_is_dark, thresh_calls,
                   adaptive_thresh_image, morph_image, result_image, white_pixels,
                   total_pixels, enhance_calls, ovars>>

\* image = Image.open(image_path)
OpenImage ==
    /\ pc = "open"
    /\ IF file.kind \in {"absent", "corrupt", "partial"}
       THEN /\ Except("open")
            /\ UNCHANGED image
       ELSE /\ image' = file.img
            /\ pc' = "gray"
            /\ UNCHANGED <<io, faults>>
    /\ UNCHANGED <<argv, file, file0, grayscale_image, text_is_dark, thresh_calls,
                   adaptive_thresh_image, morph_image, result_image, white_pixels,
                   total_pixels, enhance_calls, ovars>>

\* grayscale_image = image.convert('L'): the pixel data is decoded here
ConvertGray ==
    /\ pc = "gray"
    /\ IF file.kind = "truncated"
       THEN /\ Except("convert")
            /\ UNCHANGED grayscale_image
       ELSE /\ grayscale_image' = ConvertL(image)
            /\ pc' = "polarity"
            /\ UNCHANGED <<io, faults>>
    /\ UNCHANGED <<argv, file, file0, image, text_is_dark, thresh_calls,
                   adaptive_thresh_image, morph_image, result_image, white_pixels,
                   total_pixels, enhance_calls, ovars>>

\* text_is_dark = is_text_dark(image)
DetectPolarity ==
    /\ pc = "polarity"
    /\ text_is_dark' = IsTextDark(image)
    /\ pc' = "threshold"
    /\ UNCHANGED <<argv, io, faults, file, file0, image, grayscale_image, thresh_calls,
                   adaptive_thresh_image, morph_image, result_image, white_pixels,
                   total_pixels, enhance_calls, ovars>>

\* open_cv_image = np.array(grayscale_image); the if/else on text_is_dark with
\* its cv2.adaptiveThreshold call, which may raise (cv2.error, MemoryError)
Threshold ==
    /\ pc = "threshold"
    /\ \/ /\ Except("threshold")
          /\ UNCHANGED <<thresh_calls, adaptive_thresh_image>>
       \/ LET type == ThresholdType(text_is_dark)
          IN  /\ thresh_calls' = Append(thresh_calls,
                    [type |-> type, maxValue |-> MaxValue,
                     blockSize |-> BlockSize, C |-> ThreshOffset])
              /\ adaptive_thresh_image' \in
                    AdaptiveThreshold(ToArray(grayscale_image), MaxValue, type,
                                      BlockSize, ThreshOffset)
              /\ pc' = "close"
              /\ UNCHANGED <<io, faults>>
    /\ UNCHANGED <<argv, file, file0, image, grayscale_image, text_is_dark,
                   morph_image, result_image, white_pixels, total_pixels,
                   enhance_calls, ovars>>

\* the morphological closing and result_image = Image.fromarray(morph_image)
CloseGaps ==
    /\ pc = "close"
    /\ \/ /\ Except("close")
          /\ UNCHANGED <<morph_image, result_image>>
       \/ /\ morph_image' = MorphClose(adaptive_thresh_image, KernelSize)
          /\ result_image' = FromArray(morph_image')
          /\ pc' = "ratio"
          /\ UNCHANGED <<io, faults>>
    /\ UNCHANGED <<argv, file, file0, image, grayscale_image, text_is_dark,
                   thresh_calls, adaptive_thresh_image, white_pixels, total_pixels,
                   enhance_calls, ovars>>

\* np_image = np.array(result_image); white_pixels; total_pixels
WhiteRatio ==
    /\ pc = "ratio"
    /\ white_pixels' = CountAbove(ToArray(result_image), WhitePixelThreshold)
    /\ total_pixels' = Len(result_image.px)
    /\ pc' = "contrast"
    /\ UNCHANGED <<argv, io, faults, file, file0, image, grayscale_image, text_is_dark,
                   thresh_calls, adaptive_thresh_image, morph_image, result_image,
                   enhance_calls, ovars>>

\* if white_ratio < 0.5: result_image = ImageEnhance.Contrast(...).enhance(2)
Contrast ==
    /\ pc = "contrast"
    /\ IF NeedsContrast(white_pixels, total_pixels)
       THEN \/ /\ Except("contrast")
               /\ UNCHANGED <<result_image, enhance_calls>>
            \/ /\ result_image' = Enhance(result_image, ContrastFactor)
               /\ enhance_calls' = Append(enhance_calls, result_image)
               /\ pc' = "save"
               /\ UNCHANGED <<io, faults>>
       ELSE /\ pc' = "save"
            /\ UNCHANGED <<io, faults, result_image, enhance_calls>>
    /\ UNCHANGED <<argv, file, file0, image, grayscale_image, text_is_dark,
                   thresh_calls, adaptive_thresh_image, morph_image, white_pixels,
                   total_pixels, ovars>>

\* result_image.save(image_path), then the end of the script (status 0).  A
\* save that raises has written nothing yet or has left a partial file.
Save ==
    /\ pc = "save"
    /\ \/ /\ Except("save")
          /\ file' \in {file, PartialFile}
       \/ /\ file' = ImageFile(result_image)
          /\ exit_status' = 0
          /\ pc' = "exited"
          /\ UNCHANGED <<stdout, stderr, faults>>
    /\ UNCHANGED <<argv, file0, image, grayscale_image, text_is_dark, thresh_calls,
                   adaptive_thresh_image, morph_image, result_image, white_pixels,
                   total_pixels, enhance_calls, ovars>>

Next ==
    \/ PreMain
    \/ OpenImage
    \/ ConvertGray
    \/ DetectPolarity
    \/ Threshold
    \/ CloseGaps
    \/ WhiteRatio
    \/ Contrast
    \/ Save

Spec == PreInit /\ [][Next]_vars

(***************************************************************************)
(* ocr.py.  A value of the script is a record [isNone, val]: None, or the  *)
(* string val.  mocr is "None" or "MangaOcr" (a MangaOcr object defines no *)
(* __bool__ and no __len__, so it is true in a condition).                 *)
(***************************************************************************)
None == [isNone |-> TRUE, val |-> ""]
Str(s) == [isNone |-> FALSE, val |-> s]

\* Python's truth value of a None-or-string value: None and "" are false
Truthy(v) == ~v.isNone /\ v.val # ""

\* the words a command line is made of
Tokens == {"init", "ocr", "scan", "page.png"}

\* the texts the model may return for an image; "" for a blank image
Texts == {"", ".", "text"}

RECURSIVE SeqsUpTo(_, _)
SeqsUpTo(S, n) ==
    IF n = 0 THEN {<<>>}
    ELSE LET shorter == SeqsUpTo(S, n - 1)
         IN  shorter \cup {Append(s, x) : s \in {t \in shorter : Len(t) = n - 1}, x \in S}

OcrInit ==
    /\ argv \in SeqsUpTo(Tokens, MaxArgs)
    /\ pc = "main"
    /\ stdout = <<>>
    /\ stderr = <<>>
    /\ exit_status = -1
    /\ faults = {}
    /\ mocr = "None"
    /\ result = None
    /\ init_calls = 0
    /\ ocr_calls = 0
    /\ file = AbsentFile
    /\ file0 = file
    /\ image = NoImage
    /\ grayscale_image = NoImage
    /\ text_is_dark = FALSE
    /\ thresh_calls = <<>>
    /\ adaptive_thresh_image = NoArray
    /\ morph_image = NoArray
    /\ result_image = NoImage
    /\ white_pixels = 0
    /\ total_pixels = 0
    /\ enhance_calls = <<>>

\* logging.error(msg); sys.exit(1).  logging.basicConfig sends the records of
\* level INFO and above to standard error.
LogErrorAndExit(msg) ==
    /\ stderr' = Append(stderr, <<"log.ERROR", msg>>)
    /\ exit_status' = 1
    /\ pc' = "exited"

\* a variant of the dispatch without the check of the image path
MutOcrMain ==
    /\ pc = "main"
    /\ IF Len(argv) < 1
       THEN LogErrorAndExit("Insufficient arguments")
       ELSE IF argv[1] = "init"
       THEN /\ pc' = "init.initialize"
            /\ UNCHANGED <<stderr, exit_status>>
       ELSE IF argv[1] = "ocr"
       THEN /\ pc' = "ocr.initialize"
            /\ UNCHANGED <<stderr, exit_status>>
       ELSE LogErrorAndExit("Unknown action")
    /\ UNCHANGED <<argv, stdout, faults, pvars, ovars>>

\* if __name__ == "__main__": the argument check and the dispatch on action
OcrMain ==
    /\ pc = "main"
    /\ IF Len(argv) < 1
       THEN LogErrorAndExit("Insufficient arguments")
       ELSE IF argv[1] = "init"
       THEN /\ pc' = "init.initialize"
            /\ UNCHANGED <<stderr, exit_status>>
       ELSE IF argv[1] = "ocr"
       THEN IF Len(argv) < 2
            THEN LogErrorAndExit("Image path not provided")
            ELSE /\ pc' = "ocr.initialize"
                 /\ UNCHANGED <<stderr, exit_status>>
       ELSE LogErrorAndExit("Unknown action")
    /\ UNCHANGED <<argv, stdout, faults, pvars, ovars>>

\* a variant of initialize_ocr without the try/except: the exception of the
\* constructor ends the script with a traceback (status 1)
MutInitializeOcr ==
    /\ pc \in {"init.initialize", "ocr.initialize"}
    /\ init_calls' = init_calls + 1
    /\ \/ /\ mocr' = "MangaOcr"
          /\ stderr' = stderr \o <<<<"log.INFO", "Initializing OCR model">>,
                                   <<"log.INFO", "OCR model initialized successfully">>>>
          /\ pc' = IF pc = "init.initialize" THEN "init.report" ELSE "ocr.check"
          /\ UNCHANGED <<faults, exit_status>>
       \/ /\ mocr' = mocr
          /\ stderr' = stderr \o <<<<"log.INFO", "Initializing OCR model">>,
                                   <<"traceback", "Traceback (most recent call last)">>>>
          /\ faults' = faults \cup {"initialize_ocr"}
          /\ exit_status' = 1
          /\ pc' = "crashed"
    /\ UNCHANGED <<argv, stdout, result, ocr_calls, pvars>>

\* mocr = initialize_ocr(): MangaOcr(force_cpu=True) returns the model or
\* raises; the except clause logs the error and returns None
InitializeOcr ==
    /\ pc \in {"init.initialize", "ocr.initialize"}
    /\ init_calls' = init_calls + 1
    /\ \/ /\ mocr' = "MangaOcr"
          /\ stderr' = stderr \o <<<<"log.INFO", "Initializing OCR model">>,
                                   <<"log.INFO", "OCR model initialized successfully">>>>
          /\ UNCHANGED faults
       \/ /\ mocr' = "None"
          /\ stderr' = stderr \o <<<<"log.INFO", "Initializing OCR model">>,
                                   <<"log.ERROR", "Error initializing OCR model">>>>
          /\ faults' = faults \cup {"initialize_ocr"}
    /\ pc' = IF pc = "init.initialize" THEN "init.report" ELSE "ocr.check"
    /\ UNCHANGED <<argv, stdout, exit_status, result, ocr_calls, pvars>>

\* a variant of the report of action "init" that ends with sys.exit(1) when
\* the model did not load
MutInitReport ==
    /\ pc = "init.report"
    /\ IF mocr # "None"
       THEN /\ stdout' = Append(stdout, "OCR model initialized")
            /\ exit_status' = 0
            /\ UNCHANGED stderr
       ELSE /\ stderr' = Append(stderr, <<"print", "Error: OCR model initialization failed">>)
            /\ exit_status' = 1
            /\ UNCHANGED stdout
    /\ pc' = "exited"
    /\ UNCHANGED <<argv, faults, pvars, ovars>>

\* action "init": if mocr: print(...) else: print(..., file=sys.stderr); the
\* script ends there (status 0)
InitReport ==
    /\ pc = "init.report"
    /\ IF mocr # "None"
       THEN /\ stdout' = Append(stdout, "OCR model initialized")
            /\ UNCHANGED stderr
       ELSE /\ stderr' = Append(stderr, <<"print", "Error: OCR model initialization failed">>)
            /\ UNCHANGED stdout
    /\ exit_status' = 0
    /\ pc' = "exited"
    /\ UNCHANGED <<argv, faults, pvars, ovars>>

\* a variant of the test of mocr that goes on to perform_ocr whether or not
\* the model loaded
MutOcrCheck ==
    /\ pc = "ocr.check"
    /\ pc' = "ocr.perform"
    /\ UNCHANGED <<argv, io, faults, pvars, ovars>>

\* action "ocr": if mocr: go on to perform_ocr, else: print the error; the
\* script ends there (status 0)
OcrCheck ==
    /\ pc = "ocr.check"
    /\ IF mocr # "None"
       THEN /\ pc' = "ocr.perform"
            /\ UNCHANGED <<stderr, exit_status>>
       ELSE /\ stderr' = Append(stderr, <<"print", "Error: OCR model initialization failed">>)
            /\ exit_status' = 0
            /\ pc' = "exited"
    /\ UNCHANGED <<argv, stdout, faults, pvars, ovars>>

\* result = perform_ocr(mocr, sys.argv[2]): mocr(image_path) returns a text or
\* raises; the except clause logs the error and returns None
PerformOcr ==
    /\ pc = "ocr.perform"
    /\ ocr_calls' = ocr_calls + 1
    /\ \/ \E t \in Texts :
            /\ result' = Str(t)
            /\ stderr' = stderr \o <<<<"log.INFO", "Performing OCR on image">>,
                                     <<"log.INFO", "OCR result">>>>
            /\ UNCHANGED faults
       \/ /\ result' = None
          /\ stderr' = stderr \o <<<<"log.INFO", "Performing OCR on image">>,
                                   <<"log.ERROR", "Error performing OCR">>>>
          /\ faults' = faults \cup {"perform_ocr"}
    /\ pc' = "ocr.report"
    /\ UNCHANGED <<argv, stdout, exit_status, mocr, init_calls, pvars>>

\* if result: print(result) else: print("Error: OCR failed", file=sys.stderr);
\* the script ends there (status 0)
OcrReport ==
    /\ pc = "ocr.report"
    /\ IF Truthy(result)
       THEN /\ stdout' = Append(stdout, result.val)
            /\ UNCHANGED stderr
       ELSE /\ stderr' = Append(stderr, <<"print", "Error: OCR failed">>)
            /\ UNCHANGED stdout
    /\ exit_status' = 0
    /\ pc' = "exited"
    /\ UNCHANGED <<argv, faults, pvars, ovars>>

OcrNext ==
    \/ OcrMain
    \/ InitializeOcr
    \/ InitReport
    \/ OcrCheck
    \/ PerformOcr
    \/ OcrReport

OcrSpec == OcrInit /\ [][OcrNext]_vars

(***************************************************************************)
(* Properties of preprocessing.py (specification Spec).                    *)
(***************************************************************************)
Exited == pc = "exited"

\* the lines print(..., file=sys.stderr) wrote
PrintedErrors == {i \in 1..Len(stderr) : stderr[i][1] = "print"}

\* the closed binarised image, as the contrast decision sees it
ClosedWhite == CountAbove(morph_image, 250)
ClosedTotal == Len(morph_image.px)

\* C1: a run of the preprocessor that has not ended can take a step, and it
\* ends in one of two ways: with the argument missing or a step having raised,
\* a message is on stderr and the status is 1; otherwise the file holds the
\* processed image (the closed image, enhanced or not) and the status is 0.
C1_RunEndsOneOfTwoWays ==
    /\ (exit_status # -1) <=> Exited
    /\ ~Exited => ENABLED Next
    /\ Exited =>
         IF argv = <<>> \/ faults # {}
         THEN /\ exit_status = 1
              /\ PrintedErrors # {}
         ELSE /\ exit_status = 0
              /\ stderr = <<>>
              /\ file = ImageFile(result_image)
              /\ result_image \in {FromArray(morph_image),
                                   Enhance(FromArray(morph_image), 2)}
              /\ morph_image = MorphClose(adaptive_thresh_image, 3)

\* a run that succeeded and replaced the file by a different image
C1_Witness ==
    /\ Exited
    /\ exit_status = 0
    /\ file # file0
    /\ file.img.mode = "L"

\* C2: a run that ends with the argument missing, or with a file that cannot
\* be opened or decoded, has status 1 and leaves the file as it was; and in
\* any run the file differs from the original only once the save step has
\* run, after load, threshold, closing and the contrast decision completed
\* without error.
C2_NoMutationOnLoadFailure ==
    /\ (Exited /\ (argv = <<>> \/ file0.kind \in {"absent", "corrupt", "truncated"}))
           => (exit_status = 1 /\ file = file0)
    /\ file # file0 =>
           /\ Exited
           /\ faults \subseteq {"save"}
           /\ image = file0.img
           /\ grayscale_image = ConvertL(image)
           /\ Len(thresh_calls) = 1
           /\ morph_image # NoArray
           /\ total_pixels = Len(morph_image.px)

\* a run on a file whose pixel data cannot be decoded has ended
C2_Witness ==
    /\ Exited
    /\ argv # <<>>
    /\ file0.kind = "truncated"
    /\ faults = {"convert"}

\* C6: once the contrast decision is taken, the enhancement has been applied
\* (to the closed image) if and only if 2 * W < N, W and N counted on the
\* closed image; an enhancement that raised was attempted only with 2 * W < N.
C6_ContrastIffBelowHalf ==
    (pc = "save" \/ (Exited /\ total_pixels > 0)) =>
        /\ Len(enhance_calls) <= 1
        /\ "contrast" \notin faults =>
              (Len(enhance_calls) = 1 <=> 2 * ClosedWhite < ClosedTotal)
        /\ "contrast" \in faults =>
              (enhance_calls = <<>> /\ 2 * ClosedWhite < ClosedTotal)
        /\ enhance_calls # <<>> => enhance_calls[1] = FromArray(morph_image)

\* the decision was taken at a white ratio of exactly 0.5 and nothing was enhanced
C6_Witness ==
    /\ pc = "save"
    /\ 2 * ClosedWhite = ClosedTotal
    /\ enhance_calls = <<>>
    /\ CountAbove(adaptive_thresh_image, 250) = ClosedWhite

\* the sum and the number of the pixels of the grayscale image
GraySum == SeqSum(ToArray(grayscale_image).px)
GrayCount == Len(grayscale_image.px)

\* C7: at most one adaptive threshold is applied in a run, exactly one once
\* the run is past the threshold step; it is the normal binary threshold when
\* the mean of the grayscale image is above 127 and the inverted one when the
\* mean is 127 or less, with block size 11 and offset 2 either way.
C7_PolarityFromMean ==
    /\ Len(thresh_calls) <= 1
    /\ (pc \in {"close", "ratio", "contrast", "save"} \/ (Exited /\ morph_image # NoArray))
           => Len(thresh_calls) = 1
    /\ thresh_calls # <<>> =>
           /\ thresh_calls[1].blockSize = 11
           /\ thresh_calls[1].C = 2
           /\ GraySum > 127 * GrayCount => thresh_calls[1].type = "THRESH_BINARY"
           /\ GraySum <= 127 * GrayCount => thresh_calls[1].type = "THRESH_BINARY_INV"

\* an RGB image whose grayscale mean is exactly 127 was thresholded
C7_Witness ==
    /\ pc = "close"
    /\ image.mode = "RGB"
    /\ GrayCount > 1
    /\ GraySum = 127 * GrayCount
    /\ thresh_calls[1].type = "THRESH_BINARY_INV"

\* C10: every pixel of the image handed to the save step is 0 or 255, and an
\* enhancement that ran returned the image it was given; for every mean m in
\* 0..255 the enhancement maps 0 to 0 and 255 to 255.
C10_SavedPixelsBinary ==
    /\ pc = "save" =>
          /\ \A i \in 1..Len(result_image.px) : result_image.px[i][1] \in {0, 255}
          /\ enhance_calls # <<>> => result_image = enhance_calls[1]
          /\ \A m \in 0..255 :
                Clip(m + 2 * (0 - m)) = 0 /\ Clip(m + 2 * (255 - m)) = 255

\* the enhancement ran on an image that holds both values
C10_Witness ==
    /\ pc = "save"
    /\ enhance_calls # <<>>
    /\ \E i, j \in 1..Len(result_image.px) :
          enhance_calls[1].px[i][1] = 0 /\ enhance_calls[1].px[j][1] = 255

(***************************************************************************)
(* Properties of ocr.py (specification OcrSpec).                           *)
(***************************************************************************)
\* the command lines the script rejects
BadArguments ==
    \/ Len(argv) = 0
    \/ Len(argv) >= 1 /\ argv[1] = "ocr" /\ Len(argv) < 2
    \/ Len(argv) >= 1 /\ argv[1] \notin {"init", "ocr"}

\* the 'Error: ...' lines printed on stderr
ErrorLines ==
    {i \in 1..Len(stderr) :
        stderr[i] \in {<<"print", "Error: OCR model initialization failed">>,
                       <<"print", "Error: OCR failed">>}}

Logged(msg) == \E i \in 1..Len(stderr) : stderr[i] = <<"log.ERROR", msg>>

\* C3: with no action, with 'ocr' and no image path, or with an unknown
\* action, the runner exits with status 1 in its first step, the model never
\* having been initialised.
C3_BadArgumentsExitOne ==
    BadArguments =>
        /\ pc \in {"main", "exited"}
        /\ pc = "main" => ENABLED OcrNext
        /\ init_calls = 0 /\ mocr = "None"
        /\ Exited => exit_status = 1

\* the runner has exited on 'ocr' without an image path
C3_Witness ==
    /\ argv = <<"ocr">>
    /\ Exited
    /\ exit_status = 1

\* C4: an exception of the model is caught: it is logged, the function that
\* met it returns None, the script goes on to its end, and at the end the
\* status is non-zero or an error line is on stderr.
C4_ModelErrorsAreCaught ==
    /\ pc \in {"main", "init.initialize", "ocr.initialize", "init.report",
               "ocr.check", "ocr.perform", "ocr.report", "exited"}
    /\ "initialize_ocr" \in faults =>
          mocr = "None" /\ Logged("Error initializing OCR model")
    /\ "perform_ocr" \in faults =>
          result = None /\ Logged("Error performing OCR")
    /\ faults # {} =>
          /\ ~Exited => ENABLED OcrNext
          /\ Exited => (exit_status > 0 \/ ErrorLines # {})

\* a run in which recognition raised has ended
C4_Witness ==
    /\ Exited
    /\ faults = {"perform_ocr"}

\* C5 (as claimed): when the model loaded and recognition was attempted, the
\* text recognition returned (the empty text included) is printed to stdout
\* and no error line is printed, and an error line alone is printed when
\* recognition failed.
C5_ResultPrintedOrError ==
    (Exited /\ ocr_calls = 1) =>
        IF result.isNone
        THEN stdout = <<>> /\ ErrorLines # {}
        ELSE stdout = <<result.val>> /\ ErrorLines = {}

\* C8: the model is initialised at most once and recognition is attempted at
\* most once, and only after an initialisation that succeeded.
C8_SingleAttempt ==
    /\ init_calls <= 1
    /\ ocr_calls <= 1
    /\ ocr_calls = 1 => (init_calls = 1 /\ mocr = "MangaOcr")
    /\ pc \in {"ocr.perform", "ocr.report"} => mocr = "MangaOcr"
    /\ "initialize_ocr" \in faults => (init_calls = 1 /\ ocr_calls = 0)

\* a run of 'ocr' whose initialisation failed has ended
C8_Witness ==
    /\ Exited
    /\ Len(argv) >= 2 /\ argv[1] = "ocr"
    /\ faults = {"initialize_ocr"}
    /\ init_calls = 1

\* C9: with valid arguments, a run in which initialisation or recognition
\* failed ends with exactly one 'Error: ...' line on stderr and status 0;
\* status 1 comes only from the rejected command lines.
C9_FailureExitsZero ==
    Exited =>
        /\ (~BadArguments /\ faults # {}) =>
               (Cardinality(ErrorLines) = 1 /\ exit_status = 0)
        /\ exit_status = 1 <=> BadArguments
        /\ exit_status \in {0, 1}

\* a run of 'init' whose initialisation failed has ended with status 0
C9_Witness ==
    /\ Exited
    /\ Len(argv) >= 1 /\ argv[1] = "init"
    /\ faults = {"initialize_ocr"}
    /\ exit_status = 0

====
